---------------------------- MODULE Spec2Model ----------------------------
(***************************************************************************)
(* The turn engine of the Ito card game (src/ito_graph.py): the graph of   *)
(* nodes setup -> speaking -> voting -> (execute_play | wait_round) ->     *)
(* (END | voting) that ItoGameGraph builds and ItoGameGraph.run drives,    *)
(* with the deck of src/utils/deck.py.                                     *)
(*                                                                         *)
(* Agents are the identifiers 1..N in agents-list order; 0 stands for "no  *)
(* human agent" (human_agent_id is None) and for the "(moderator)" owner   *)
(* of a fallback question.  The Decision Providers are inputs: each call   *)
(* draws its answer from a small set.  The deck of unique cards 1..100 is  *)
(* scaled to 1..DeckSize.  theme, speaker_reasonings and                   *)
(* estimator_thoughts have no effect on control flow and are not part of   *)
(* the state modelled here.                                                *)
(*                                                                         *)
(* The provider layer (src/utils/llm.py and the per-role instances of      *)
(* src/agents/*.py) has a state of its own: the instance cache, the three  *)
(* role globals, and the environment.  Its operations are the actions of   *)
(* ProviderSpec; the engine specifications leave that state alone.         *)
(***************************************************************************)
EXTENDS Integers, Sequences, FiniteSets, TLC

\* ------------------------------------------------------------------ bounds
\* Size of the deck: create_deck() builds range(1, 101); scaled down.
DeckSize == 2
\* Largest max_turns a game is configured with.
MaxTurnsBound == 2
\* Largest number of chat model instances constructed in one process.
MaxBuilt == 2

\* The card from which the Estimator without a chat model waits (20 of the
\* 100 cards in the source).
MockThreshold == 2

VARIABLES
    pc,               \* the node the graph runs next, or END / done / raised
    agent_ids,        \* self.agent_ids
    agents,           \* state["agents"]: the agents in list order (<<>>: absent or empty)
    human,            \* self.human_agent_id (0: None)
    max_turns,        \* self.max_turns
    question_pool,    \* the texts self.discussion_generate_player_question gives
    action_pool,      \* the actions self.estimator_decide_action and the human give
    estimator,        \* self.estimator_decide_action without a chat model ("mock") or not ("provider")
    self_theme,       \* self.theme ("": None or empty)
    theme,            \* state["theme"] ("": key absent)
    theme_override,   \* state["theme_override"] ("": key absent, None or empty)
    hands,            \* state["hands"]
    deck,             \* state["deck"]
    history,          \* state["history"]
    played_cards,     \* state["played_cards"]
    last_played_card, \* state["last_played_card"]
    utterances,       \* state["utterances"]
    turn_count,       \* state["turn_count"]
    status,           \* state["status"] ("NONE": key absent)
    votes,            \* state["votes"]
    finished_agents,  \* state["finished_agents"]
    dealt,            \* _setup_node: which branch set the hands ("no": not yet)
    final_state,      \* run(): the value of the last output of the stream
    trace,            \* run(): the node names the stream has output, in order
    inputs,           \* what the providers and the human gave the last node
    env,              \* os.environ as utils/llm.py reads it, and what is installed
    llm_cache,        \* utils.llm._global_llm_instances
    role_llm,         \* _global_speaker_llm, _global_estimator_llm, _global_discussion_llm
    built,            \* the number of chat model instances constructed so far
    stale,            \* the constructed instances that existed at the last clear_llm_cache()
    call              \* the provider call just made (NoCall: the last operation was none)

vars == <<pc, agent_ids, agents, human, max_turns, question_pool, action_pool, estimator,
          self_theme,
          theme, theme_override, hands, deck,
          history, played_cards, last_played_card, utterances, turn_count,
          status, votes, finished_agents, dealt, final_state, trace, inputs,
          env, llm_cache, role_llm, built, stale, call>>

config == <<agent_ids, human, max_turns, question_pool, action_pool, estimator,
           self_theme>>

game == <<agents, theme, theme_override, hands, deck, history, played_cards,
          last_played_card, utterances, turn_count, status, votes,
          finished_agents>>

engine == <<pc, config, game, dealt, final_state, trace, inputs>>

providers == <<env, llm_cache, role_llm, built, stale, call>>

\* ----------------------------------------------------------------- helpers
Cards == 1..DeckSize

Range(s) == {s[i] : i \in DOMAIN s}

AgentSet == Range(agents)

\* agents = state.get("agents") or self.agent_ids
SetupAgents == IF agents # <<>> THEN agents ELSE agent_ids

Min(S) == CHOOSE x \in S : \A y \in S : x <= y

\* A line of the history: what kind of line it is and the values it prints.
Line(kind, who, owner, card, text) ==
    [kind |-> kind, who |-> who, owner |-> owner, card |-> card, text |-> text]

StartLine(th) == Line("start", 0, 0, 0, th)

SuppliedLine == Line("supplied", 0, 0, 0, "")

AllWaitLine == Line("allwait", 0, 0, 0, "")

StagnationLine == Line("stagnation", 0, 0, 0, "")

\* The game state as a node returns it (the value the stream outputs).
Snapshot ==
    [agents |-> agents, theme |-> theme, theme_override |-> theme_override,
     hands |-> hands, deck |-> deck, history |-> history,
     played_cards |-> played_cards, last_played_card |-> last_played_card,
     utterances |-> utterances, turn_count |-> turn_count, status |-> status,
     votes |-> votes, finished_agents |-> finished_agents]

\* -------------------------------------------------------------------- deck
Perms(S) ==
    {p \in [1..Cardinality(S) -> S] : \A i, j \in DOMAIN p : i # j => p[i] # p[j]}

\* create_deck(): the cards 1..DeckSize in any order.
create_deck == Perms(Cards)

\* Faulty variant of draw_card: reads the last card without removing it.
draw_card_NoPop(d) ==
    IF Len(d) = 0
    THEN [raised |-> TRUE, card |-> 0, deck |-> d]
    ELSE [raised |-> FALSE, card |-> d[Len(d)], deck |-> d]

\* Faulty variant of draw_card: an empty deck gives the card 0 instead of raising.
draw_card_NoRaise(d) ==
    IF Len(d) = 0
    THEN [raised |-> FALSE, card |-> 0, deck |-> d]
    ELSE [raised |-> FALSE, card |-> d[Len(d)], deck |-> SubSeq(d, 1, Len(d) - 1)]

\* draw_card(deck): pops the last card; raises IndexError on an empty deck.
draw_card(d) ==
    IF Len(d) = 0
    THEN [raised |-> TRUE, card |-> 0, deck |-> d]
    ELSE [raised |-> FALSE, card |-> d[Len(d)], deck |-> SubSeq(d, 1, Len(d) - 1)]

\* for agent in agents: hands[agent] = draw_card(deck), from agent number i on.
RECURSIVE DealFrom(_, _, _)
DealFrom(i, h, d) ==
    IF i > Len(SetupAgents)
    THEN [raised |-> FALSE, hands |-> h, deck |-> d]
    ELSE LET r == draw_card(d)
         IN  IF r.raised
             THEN [raised |-> TRUE, hands |-> h, deck |-> d]
             ELSE DealFrom(i + 1, (SetupAgents[i] :> r.card) @@ h, r.deck)

\* The deck left when the hands are pre-supplied: the cards not in any hand.
RECURSIVE FilterDeck(_, _)
FilterDeck(d, used) ==
    IF d = <<>> THEN <<>>
    ELSE IF Head(d) \in used THEN FilterDeck(Tail(d), used)
         ELSE <<Head(d)>> \o FilterDeck(Tail(d), used)

\* -------------------------------------------------------------------- graph
\* Faulty variant of AfterSetup: the edge from setup leads straight to voting.
AfterSetup_SkipSpeaking == "voting"

\* _build_graph: add_edge("setup", "speaking") and add_edge("speaking", "voting").
AfterSetup == "speaking"

AfterSpeaking == "voting"

\* Faulty variant of StreamValue: run() keeps the state it started with.
StreamValue_KeepFirst(value) == final_state

\* run(): final_state after an output of the stream (a node's value, never None).
StreamValue(value) == value

\* ----------------------------------------------------------- provider layer
\* The three roles, and the five provider functions with the role each uses.
Roles == {"speaker", "estimator", "discussion"}

ProviderFunctions ==
    {"generate_word", "decide_action", "generate_question",
     "generate_player_question", "generate_answer"}

RoleOf(fn) ==
    CASE fn = "generate_word" -> "speaker"
      [] fn = "decide_action" -> "estimator"
      [] OTHER -> "discussion"

\* The temperature each role asks for, in tenths.
Temperature(role) ==
    CASE role = "speaker" -> 7
      [] role = "estimator" -> 0
      [] OTHER -> 2

Backends == {"openai", "gemini"}

Models == {"m1", "m2"}

\* A chat model instance: constructed by create_chat_llm ("built"), passed as
\* mock_llm= to a provider function ("override"), or installed through
\* set_speaker_llm / set_estimator_llm / set_discussion_llm ("custom").
Instance(kind, id, backend, model, temperature) ==
    [kind |-> kind, id |-> id, backend |-> backend, model |-> model,
     temperature |-> temperature]

None == Instance("none", 0, "", "", 0)

Overrides == {Instance("override", 1, "", "", 0)}

Customs == {Instance("custom", 1, "", "", 0)}

\* get_provider() and get_model(role), as the environment settles them.
get_provider == env.provider

get_model(role) == env.model[role]

\* cache_key = f"{get_provider()}:{get_model(role)}"
CacheKey(role) == <<get_provider, get_model(role)>>

\* create_chat_llm(role=, temperature=, mock_llm=): the instance returned
\* (None: mock mode), or the import error raised, with the cache and the
\* number of constructed instances it leaves.
create_chat_llm(role, temperature, mock_llm) ==
    LET key == CacheKey(role)
        llm == Instance("built", built + 1, get_provider, get_model(role), temperature)
        mock == [raised |-> FALSE, llm |-> None, cache |-> llm_cache, built |-> built]
        constructed == [raised |-> FALSE, llm |-> llm,
                        cache |-> (key :> llm) @@ llm_cache, built |-> built + 1]
    IN  IF env.force_mock THEN mock
        ELSE IF mock_llm # None THEN [mock EXCEPT !.llm = mock_llm]
        ELSE IF key \in DOMAIN llm_cache THEN [mock EXCEPT !.llm = llm_cache[key]]
        ELSE IF get_provider = "openai"
             THEN IF ~env.installed THEN [mock EXCEPT !.raised = TRUE]
                  ELSE IF ~env.api_key THEN mock
                  ELSE constructed
             ELSE IF ~env.api_key THEN mock
                  ELSE IF ~env.installed THEN [mock EXCEPT !.raised = TRUE]
                  ELSE constructed

\* _get_speaker_llm / _get_estimator_llm / _get_discussion_llm: the role's
\* global instance, resolved on the first call that finds it None.
GetLlm(role, mock_llm) ==
    IF role_llm[role] = None
    THEN create_chat_llm(role, Temperature(role), mock_llm)
    ELSE [raised |-> FALSE, llm |-> role_llm[role], cache |-> llm_cache, built |-> built]

\* What chain.invoke and the decoding of its text can do.
InvokeOutcomes == {"ok", "error", "undecodable"}

\* What a provider function returns: the mock logic's value without an
\* instance, the decoded answer, or the role's safe default on any exception.
Returned(llm, outcome) ==
    IF llm = None THEN "mock"
    ELSE IF outcome = "ok" THEN "answer"
    ELSE "default"

NoCall == [fn |-> "", override |-> None, llm |-> None, raised |-> FALSE, result |-> ""]

\* The provider layer before its first use, in the environment of the test
\* suite (ITO_FORCE_MOCK=true).  The engine passes no override, reads nothing
\* of this state, and sees only the values the provider functions return.
ProvidersUnused ==
    /\ env = [force_mock |-> TRUE, provider |-> "openai", api_key |-> FALSE,
              installed |-> TRUE, model |-> [r \in Roles |-> "m1"]]
    /\ llm_cache = <<>>
    /\ role_llm = [r \in Roles |-> None]
    /\ built = 0
    /\ stale = 0
    /\ call = NoCall

\* --------------------------------------------------------------------- Init
\* The engine as constructed (agents, human agent, max_turns and the texts
\* its player-question provider gives) and the caller's initial state, which
\* may supply a hands mapping: complete, missing the last agent, or with an
\* entry for one who is no agent.  The cards of a supplied mapping need not
\* be distinct.
Configured(sizes, humans, turns, pools, actions, estimators) ==
    /\ \E n \in sizes : agent_ids = [i \in 1..n |-> i]
    /\ agents = agent_ids
    /\ human \in humans \cap ({0} \cup Range(agents))
    /\ max_turns \in turns
    /\ question_pool \in pools
    /\ action_pool \in actions
    /\ estimator \in estimators

\* The caller's initial state, before run() starts the graph.
Fresh ==
    /\ pc = "setup"
    /\ \E k \in {0, Len(agents) - 1, Len(agents), Len(agents) + 1} :
         hands \in [1..k -> Cards]
    /\ self_theme = "t0"
    /\ theme = ""
    /\ theme_override = self_theme
    /\ deck = <<>>
    /\ history = <<>>
    /\ played_cards = <<>>
    /\ last_played_card = 0
    /\ utterances = <<>>
    /\ turn_count = 0
    /\ status = "NONE"
    /\ votes = <<>>
    /\ finished_agents = <<>>
    /\ dealt = "no"
    /\ final_state = Snapshot
    /\ trace = <<>>
    /\ inputs = <<>>
    /\ ProvidersUnused

\* Up to one agent more than the deck has cards; no human agent; providers
\* that ask one and the same question and decide PLAY or WAIT.
Init ==
    /\ Configured(1..(DeckSize + 1), {0}, 1..MaxTurnsBound, {{"q1"}}, {{"PLAY", "WAIT"}},
                  {"provider"})
    /\ Fresh

\* -------------------------------------------------------------------- setup
\* str.strip() on the texts of this model.
Strip(text) == IF text = " " THEN "" ELSE text

\* The pool random.choice draws a theme from.
THEMES_JA == {"t1", "t2"}

\* theme_override if theme_override else (self.theme or random.choice(THEMES_JA)):
\* the themes the node can select for a trimmed override.
SelectTheme(override) ==
    IF override # "" THEN {override}
    ELSE IF self_theme # "" THEN {self_theme}
    ELSE THEMES_JA

\* Faulty variant of KeepHands: a mapping is kept as soon as every agent has an entry.
KeepHands_Covering(provided) == Range(SetupAgents) \subseteq DOMAIN provided

\* set(provided_hands.keys()) == set(agents)
KeepHands(provided) == DOMAIN provided = Range(SetupAgents)

\* Faulty variant of SetupHistory: every game starts a history of its own.
SetupHistory_Restart(initial_history, th) == <<StartLine(th)>>

\* history = list(initial_history) if it is a non-empty list, the start line else.
SetupHistory(initial_history, th) ==
    IF initial_history # <<>> THEN initial_history ELSE <<StartLine(th)>>

\* _setup_node: keeps a complete pre-supplied hands mapping, deals otherwise;
\* a deal from an exhausted deck raises out of the node and out of run().
Setup ==
    /\ pc = "setup"
    /\ \E d \in create_deck :
         LET keep == KeepHands(hands)
             deal == DealFrom(1, <<>>, d)
         IN  \E th \in SelectTheme(Strip(theme_override)) :
             IF ~keep /\ deal.raised
             THEN /\ pc' = "raised"
                  /\ UNCHANGED <<game, dealt, final_state, trace, inputs>>
             ELSE /\ agents' = SetupAgents
                  /\ hands' = IF keep THEN hands ELSE deal.hands
                  /\ deck' = IF keep THEN FilterDeck(d, Range(hands)) ELSE deal.deck
                  /\ theme_override' = Strip(theme_override)
                  /\ theme' = th
                  /\ history' = SetupHistory(history, th)
                  /\ played_cards' = <<>>
                  /\ last_played_card' = 0
                  /\ utterances' = <<>>
                  /\ turn_count' = 0
                  /\ status' = "ACTIVE"
                  /\ votes' = <<>>
                  /\ finished_agents' = <<>>
                  /\ dealt' = IF keep THEN "kept" ELSE "dealt"
                  /\ pc' = AfterSetup
                  /\ trace' = Append(trace, "setup")
                  /\ inputs' = <<>>
                  /\ final_state' = StreamValue(Snapshot')
    /\ UNCHANGED <<config, providers>>

\* ----------------------------------------------------------------- speaking
\* What the Speaker provider's word can be, and what the human can type.
SpeakerWords == {"w"}

HumanWordInputs == {"", " ", "w"}

\* The placeholder recorded for an empty human entry.
NoWord == "(silent)"

\* Faulty variant of SpokenWord: the word is recorded as it was given.
SpokenWord_AsGiven(a, raw) == raw

\* _speaking_node, per agent: the human's stripped input (empty: placeholder),
\* or the provider's word.
SpokenWord(a, raw) ==
    IF a = human
    THEN (IF Strip(raw) = "" THEN NoWord ELSE Strip(raw))
    ELSE raw

\* Faulty variant of Unfinished: the finished agents are not left out.
Unfinished_All == agents

\* The agents of the list that are not in finished_agents, in list order.
Unfinished == SelectSeq(agents, LAMBDA a : a \notin Range(finished_agents))

RECURSIVE SayLines(_, _)
SayLines(as, u) ==
    IF as = <<>> THEN <<>>
    ELSE <<Line("say", Head(as), 0, 0, u[Head(as)])>> \o SayLines(Tail(as), u)

\* _speaking_node: every unfinished agent, in list order, says one word.
Speaking ==
    /\ pc = "speaking"
    /\ \E raw \in [Range(Unfinished) ->  SpeakerWords \cup HumanWordInputs] :
         /\ \A a \in Range(Unfinished) :
              raw[a] \in (IF a = human THEN HumanWordInputs ELSE SpeakerWords)
         /\ utterances' = [a \in Range(Unfinished) |-> SpokenWord(a, raw[a])]
         /\ history' = history \o SayLines(Unfinished, utterances')
         /\ inputs' = raw
    /\ pc' = AfterSpeaking
    /\ trace' = Append(trace, "speaking")
    /\ UNCHANGED <<config, agents, theme, theme_override, hands, deck, played_cards,
                   last_played_card, turn_count, status, votes, finished_agents,
                   dealt>>
    /\ final_state' = StreamValue(Snapshot')
    /\ UNCHANGED providers

\* ------------------------------------------------------------------- voting
\* What an Estimator decision's "action", or the human's input, can be; the
\* engine is run with a pool of them (action_pool).
RawActions == {"PLAY", "WAIT", "play", "pass"}

\* str(x).strip().upper() on the inputs above.
StripUpper(raw) ==
    CASE raw = "play" -> "PLAY"
      [] raw = "pass" -> "PASS"
      [] OTHER -> raw

\* Faulty variant of RecordedVote: the action is recorded as it reads, without
\* the default.
RecordedVote_NoDefault(a, raw) == StripUpper(raw)

\* _voting_node, per agent: the recorded vote.  The human's input counts as
\* PLAY only when it is PLAY; a provider's action outside {PLAY, WAIT} is WAIT.
RecordedVote(a, raw) ==
    IF a = human
    THEN (IF StripUpper(raw) = "PLAY" THEN "PLAY" ELSE "WAIT")
    ELSE (IF StripUpper(raw) \in {"PLAY", "WAIT"} THEN StripUpper(raw) ELSE "WAIT")

\* The PLAY voters, in the order of the votes mapping (agents-list order).
PlayCandidates(v) == SelectSeq(agents, LAMBDA a : a \in DOMAIN v /\ v[a] = "PLAY")

\* Faulty variant of RouterNode: a play needs every recorded vote to be PLAY.
RouterNode_AllPlay(v) ==
    IF DOMAIN v # {} /\ \A a \in DOMAIN v : v[a] = "PLAY"
    THEN "execute_play" ELSE "wait_round"

\* _router_node: the node that follows voting.
RouterNode(v) == IF PlayCandidates(v) # <<>> THEN "execute_play" ELSE "wait_round"

\* Faulty variants of CheckGameEnd: the game goes on after a failure; the game ends
\* after any round.
CheckGameEnd_ContinueOnFailed(st) == IF st = "SUCCESS" THEN "END" ELSE "voting"

CheckGameEnd_AlwaysEnd(st) == "END"

\* Faulty variant of CheckGameEnd: a game that goes on gives its clues again.
CheckGameEnd_Respeak(st) == IF st # "ACTIVE" THEN "END" ELSE "speaking"

\* _check_game_end: the node that follows execute_play and wait_round.
CheckGameEnd(st) == IF st # "ACTIVE" THEN "END" ELSE "voting"

\* Faulty variant of MockAction: a card at the threshold is played too.
MockAction_AtMost(my_number) == IF my_number <= MockThreshold THEN "PLAY" ELSE "WAIT"

\* decide_action without a chat model: action = "PLAY" if my_number < 20 else "WAIT"
MockAction(my_number) == IF my_number < MockThreshold THEN "PLAY" ELSE "WAIT"

\* _voting_node: every unfinished agent votes; the router picks the next node.
Voting ==
    /\ pc = "voting"
    /\ \E raw \in [Range(Unfinished) -> action_pool] :
         /\ \A a \in Range(Unfinished) :
              (estimator = "mock" /\ a # human) => raw[a] = MockAction(hands[a])
         /\ votes' = [a \in Range(Unfinished) |-> RecordedVote(a, raw[a])]
         /\ inputs' = raw
    /\ pc' = RouterNode(votes')
    /\ trace' = Append(trace, "voting")
    /\ UNCHANGED <<config, agents, theme, theme_override, hands, deck, history, played_cards,
                   last_played_card, utterances, turn_count, status,
                   finished_agents, dealt>>
    /\ final_state' = StreamValue(Snapshot')
    /\ UNCHANGED providers

\* ------------------------------------------------------------- execute_play
\* Faulty variant of MinByHand: the first PLAY voter plays, whatever its card.
MinByHand_First(c) == c[1]

\* min(play_candidates, key=lambda x: hands[x]): the first candidate, in
\* candidate order, whose card no other candidate's card is below.
RECURSIVE MinByHand(_)
MinByHand(c) ==
    IF Len(c) = 1 THEN c[1]
    ELSE LET rest == MinByHand(Tail(c))
         IN  IF hands[rest] < hands[Head(c)] THEN rest ELSE Head(c)

\* Faulty variant of PlayStatus: the all-finished test comes before the descent test.
PlayStatus_SuccessFirst(card, fin) ==
    IF Len(fin) = Len(agents) THEN "SUCCESS"
    ELSE IF card < last_played_card THEN "FAILED"
    ELSE "ACTIVE"

\* The status execute_play sets after `card` is played and `fin` have finished.
PlayStatus(card, fin) ==
    IF card < last_played_card THEN "FAILED"
    ELSE IF Len(fin) = Len(agents) THEN "SUCCESS"
    ELSE "ACTIVE"

\* Faulty variant of LastPlayed: the highest card played so far is kept.
LastPlayed_Highest(card) == IF card < last_played_card THEN last_played_card ELSE card

\* new_state["last_played_card"] = card
LastPlayed(card) == card

\* _execute_play_node: the PLAY voter with the smallest card plays it.
ExecutePlay ==
    /\ pc = "execute_play"
    /\ LET player == MinByHand(PlayCandidates(votes))
           card == hands[player]
       IN  /\ played_cards' = Append(played_cards, card)
           /\ finished_agents' = Append(finished_agents, player)
           /\ status' = PlayStatus(card, finished_agents')
           /\ last_played_card' = LastPlayed(card)
           /\ history' = Append(history, Line("play", player, 0, card, ""))
    /\ inputs' = <<>>
    /\ pc' = CheckGameEnd(status')
    /\ trace' = Append(trace, "execute_play")
    /\ UNCHANGED <<config, agents, theme, theme_override, hands, deck, utterances, turn_count,
                   votes, dealt>>
    /\ final_state' = StreamValue(Snapshot')
    /\ UNCHANGED providers

\* --------------------------------------------------------------- wait_round
\* What the player-question provider can propose (never empty: an empty
\* question is replaced by its placeholder inside the provider), what the
\* human can type, and what self.discussion_generate_question can give the
\* node, which strips it and tests it for emptiness ("" also stands for the
\* provider not being asked).
PlayerQuestions == question_pool

HumanQuestionInputs == {""} \cup question_pool

ModeratorQuestions == {"", "qm"}

DefaultQuestion == "qdefault"

\* The answer provider's answer (never empty) and the human's inputs.
ProviderAnswer == "a"

HumanAnswerInputs == {"", "a"}

Moderator == 0

\* Faulty variant of Proposals: every non-empty question is kept, seen before or not.
Proposals_NoDedup(as, q, seen) ==
    LET kept == SelectSeq(as, LAMBDA a : q[a] # "")
    IN  [i \in 1..Len(kept) |-> <<kept[i], q[kept[i]]>>]

\* The proposals loop: each active agent's question is kept unless it is
\* empty or its text was seen before.  A sequence of <<owner, question>>.
RECURSIVE Proposals(_, _, _)
Proposals(as, q, seen) ==
    IF as = <<>> THEN <<>>
    ELSE LET a == Head(as)
         IN  IF q[a] # "" /\ q[a] \notin seen
             THEN <<<<a, q[a]>>>> \o Proposals(Tail(as), q, seen \cup {q[a]})
             ELSE Proposals(Tail(as), q, seen)

\* Faulty variant of WithFallback: the general-question provider's question is not used.
WithFallback_DefaultOnly(props, mq) ==
    IF props # <<>> THEN props ELSE <<<<Moderator, DefaultQuestion>>>>

\* The fallbacks: the moderator's question, then the fixed default question.
WithFallback(props, mq) ==
    IF props # <<>> THEN props
    ELSE IF mq # "" THEN <<<<Moderator, mq>>>>
    ELSE <<<<Moderator, DefaultQuestion>>>>

\* The answers of the active agents to one question, in list order; ha is the
\* human's input for this question (an empty answer is not recorded).
RECURSIVE AnswerLines(_, _, _)
AnswerLines(as, owner, ha) ==
    IF as = <<>> THEN <<>>
    ELSE LET a == Head(as)
             ans == IF a = human THEN ha ELSE ProviderAnswer
         IN  (IF ans # "" THEN <<Line("answer", a, owner, 0, ans)>> ELSE <<>>)
             \o AnswerLines(Tail(as), owner, ha)

\* Faulty variant of DiscussionLines: the questions and answers are not recorded.
DiscussionLines_None(props, as, ha) == <<>>

\* Each question followed by its answers, in proposal order.
RECURSIVE DiscussionLines(_, _, _)
DiscussionLines(props, as, ha) ==
    IF props = <<>> THEN <<>>
    ELSE LET owner == Head(props)[1]
             q == Head(props)[2]
         IN  <<Line("question", 0, owner, 0, q)>>
             \o AnswerLines(as, owner, ha[owner])
             \o DiscussionLines(Tail(props), as, ha)

\* Faulty variant of ClearedVotes: the round leaves the votes as they are.
ClearedVotes_Kept == votes

\* "votes": {} in both returns of _wait_round_node.
ClearedVotes == <<>>

\* Faulty variant of NextTurn: a round counts twice.
NextTurn_Twice(count) == count + 2

\* next_turn = state.get("turn_count", 0) + 1
NextTurn(count) == count + 1

\* Faulty variants of Stagnated: the limit is hit one round early; one round late.
Stagnated_Early(next_turn) == next_turn + 1 >= max_turns

Stagnated_Late(next_turn) == next_turn > max_turns

\* The turn limit of wait_round.
Stagnated(next_turn) == next_turn >= max_turns

\* Faulty variant of StagnatedHistory: the round that hits the limit is cut short.
StagnatedHistory_Cut(update) == history \o <<AllWaitLine, StagnationLine>>

\* state["history"] + history_update + [the stagnation line]
StagnatedHistory(update) == history \o update \o <<StagnationLine>>

\* _wait_round_node: everyone waited; questions, answers, one more turn.
WaitRound ==
    /\ pc = "wait_round"
    /\ \E q \in [Range(Unfinished) -> PlayerQuestions \cup HumanQuestionInputs],
          mq \in ModeratorQuestions,
          ha \in [{Moderator} \cup Range(agents) -> HumanAnswerInputs] :
         /\ \A a \in Range(Unfinished) :
              q[a] \in (IF a = human THEN HumanQuestionInputs ELSE PlayerQuestions)
         /\ inputs' = [q |-> q, mq |-> mq, ha |-> ha]
         /\ Proposals(Unfinished, q, {}) # <<>> => mq = ""
         /\ LET props == WithFallback(Proposals(Unfinished, q, {}), mq)
                asked == IF human \in Range(Unfinished)
                         THEN {props[i][1] : i \in DOMAIN props} ELSE {}
                update == <<AllWaitLine>> \o DiscussionLines(props, Unfinished, ha)
                next_turn == NextTurn(turn_count)
            IN  /\ \A o \in DOMAIN ha : o \notin asked => ha[o] = ""
                /\ turn_count' = next_turn
                /\ votes' = ClearedVotes
                /\ IF Stagnated(next_turn)
                   THEN /\ history' = StagnatedHistory(update)
                        /\ status' = "FAILED"
                   ELSE /\ history' = history \o update
                        /\ status' = status
    /\ pc' = CheckGameEnd(status')
    /\ trace' = Append(trace, "wait_round")
    /\ UNCHANGED <<config, agents, theme, theme_override, hands, deck, played_cards,
                   last_played_card, utterances, finished_agents, dealt>>
    /\ final_state' = StreamValue(Snapshot')
    /\ UNCHANGED providers

\* ---------------------------------------------------------------------- run
\* run(): the stream is exhausted and final_state is returned.
Return ==
    /\ pc = "END"
    /\ pc' = "done"
    /\ UNCHANGED <<config, game, dealt, final_state, trace, inputs, providers>>

Next ==
    \/ Setup
    \/ Speaking
    \/ Voting
    \/ ExecutePlay
    \/ WaitRound
    \/ Return

Spec == Init /\ [][Next]_vars

\* run() is a sequential loop over the stream: a node that can run does run.
FairSpec == Spec /\ WF_vars(Next)

\* Games with a human agent at any place of the list (or none), in which the
\* Estimator and the human give actions that are not spelled PLAY or WAIT;
\* the turn limit stays below the largest one.
InitVoting ==
    /\ Configured(1..DeckSize, 0..DeckSize, 1..(MaxTurnsBound - 1), {{"q1"}}, {RawActions},
                  {"provider"})
    /\ Fresh

SpecVoting == InitVoting /\ [][Next]_vars

\* Games without a human agent in which the player-question provider gives
\* two different texts.
InitDiscussion ==
    /\ Configured(1..DeckSize, {0}, 1..MaxTurnsBound, {{"q1", "q2"}}, {{"PLAY", "WAIT"}},
                  {"provider"})
    /\ Fresh

SpecDiscussion == InitDiscussion /\ [][Next]_vars

\* What a caller's initial state can hold of a game: nothing, or what a game
\* that failed or succeeded left behind.
PreviousStates ==
    {[deck |-> <<>>, played_cards |-> <<>>, last_played_card |-> 0,
      utterances |-> <<>>, turn_count |-> 0, status |-> "NONE",
      votes |-> <<>>, finished_agents |-> <<>>],
     [deck |-> <<>>, played_cards |-> <<1>>, last_played_card |-> 1,
      utterances |-> (1 :> "w"), turn_count |-> 1, status |-> "FAILED",
      votes |-> <<>>, finished_agents |-> <<1>>],
     [deck |-> <<1>>, played_cards |-> <<1>>, last_played_card |-> 1,
      utterances |-> (1 :> "w"), turn_count |-> 0, status |-> "SUCCESS",
      votes |-> (1 :> "PLAY"), finished_agents |-> <<1>>]}

Reversed(s) == [i \in DOMAIN s |-> s[Len(s) + 1 - i]]

\* Games run on an initial state the caller supplies: agents absent, as
\* configured or in another order; hands absent, partial, complete or with an
\* entry too many; a history or none; a theme override, blank, or none, on an
\* engine with or without a theme; and the rest of a previous game's state.
InitSupplied ==
    /\ \E n \in 1..DeckSize : agent_ids = [i \in 1..n |-> i]
    /\ agents \in {<<>>, agent_ids, Reversed(agent_ids)}
    /\ human = 0
    /\ max_turns \in 1..MaxTurnsBound
    /\ question_pool = {"q1"}
    /\ action_pool = {"PLAY", "WAIT"}
    /\ estimator = "provider"
    /\ self_theme \in {"", "t0"}
    /\ theme \in {"", "t1"}
    /\ theme_override \in {"", " ", "t3"}
    /\ \E k \in {0, Len(agent_ids) - 1, Len(agent_ids), Len(agent_ids) + 1} :
         hands \in [1..k -> Cards]
    /\ history \in {<<>>, <<SuppliedLine>>}
    /\ \E old \in PreviousStates :
         /\ deck = old.deck
         /\ played_cards = old.played_cards
         /\ last_played_card = old.last_played_card
         /\ utterances = old.utterances
         /\ turn_count = old.turn_count
         /\ status = old.status
         /\ votes = old.votes
         /\ finished_agents = old.finished_agents
    /\ pc = "setup"
    /\ dealt = "no"
    /\ final_state = Snapshot
    /\ trace = <<>>
    /\ inputs = <<>>
    /\ ProvidersUnused

SpecSupplied == InitSupplied /\ [][Next]_vars

\* Games on any agent list the constructor accepts: empty, of distinct ids, or
\* with an id more than once.
InitAnyAgents ==
    /\ \E n \in 0..DeckSize : agent_ids \in [1..n -> 1..n]
    /\ agents = agent_ids
    /\ human = 0
    /\ max_turns \in 1..MaxTurnsBound
    /\ question_pool = {"q1"}
    /\ action_pool = {"PLAY", "WAIT"}
    /\ estimator = "provider"
    /\ Fresh

SpecAnyAgents == InitAnyAgents /\ [][Next]_vars

\* Games of the engine as shipped with no chat model available: the Estimator
\* decides by its mock logic.  Every node that is enabled eventually runs.
InitMock ==
    /\ Configured(1..(DeckSize + 1), {0}, 1..MaxTurnsBound, {{"q1"}},
                  {{"PLAY", "WAIT"}}, {"mock"})
    /\ Fresh

SpecMock == InitMock /\ [][Next]_vars /\ WF_vars(Next)

\* -------------------------------------------------- provider layer: actions
\* One of the five provider functions is called, with or without mock_llm=.
\* The instance is resolved outside the function's try block, so an error of
\* create_chat_llm leaves the function; chain.invoke and the decoding are
\* inside it.
ProviderCall ==
    \E fn \in ProviderFunctions, mock_llm \in {None} \cup Overrides,
       outcome \in InvokeOutcomes :
        LET role == RoleOf(fn)
            r == GetLlm(role, mock_llm)
        IN  /\ r.built <= MaxBuilt
            /\ IF r.raised
               THEN /\ call' = [fn |-> fn, override |-> mock_llm, llm |-> None,
                                 raised |-> TRUE, result |-> "raised"]
                    /\ UNCHANGED <<llm_cache, role_llm, built>>
               ELSE /\ role_llm' = [role_llm EXCEPT ![role] = r.llm]
                    /\ llm_cache' = r.cache
                    /\ built' = r.built
                    /\ call' = [fn |-> fn, override |-> mock_llm, llm |-> r.llm,
                                 raised |-> FALSE, result |-> Returned(r.llm, outcome)]
            /\ UNCHANGED <<env, stale, engine>>

\* set_speaker_llm(llm), set_estimator_llm(llm), set_discussion_llm(llm).
SetLlm ==
    \E role \in Roles, llm \in {None} \cup Customs :
        /\ role_llm' = [role_llm EXCEPT ![role] = llm]
        /\ call' = NoCall
        /\ UNCHANGED <<env, llm_cache, built, stale, engine>>

\* clear_llm_cache().
ClearCache ==
    /\ llm_cache' = <<>>
    /\ stale' = built
    /\ call' = NoCall
    /\ UNCHANGED <<env, role_llm, built, engine>>

\* A process that has constructed no engine yet, in any environment: forced
\* mock or not, either backend, with or without an API key and the backend's
\* package, any model for each role.
ProviderInit ==
    /\ env \in [force_mock : BOOLEAN, provider : Backends, api_key : BOOLEAN,
                 installed : BOOLEAN, model : [Roles -> Models]]
    /\ llm_cache = <<>>
    /\ role_llm = [r \in Roles |-> None]
    /\ built = 0
    /\ stale = 0
    /\ call = NoCall
    /\ pc = "setup"
    /\ agent_ids = <<1>>
    /\ agents = <<1>>
    /\ human = 0
    /\ max_turns = 1
    /\ question_pool = {"q1"}
    /\ action_pool = {"PLAY", "WAIT"}
    /\ estimator = "provider"
    /\ hands = <<>>
    /\ self_theme = "t0"
    /\ theme = ""
    /\ theme_override = self_theme
    /\ deck = <<>>
    /\ history = <<>>
    /\ played_cards = <<>>
    /\ last_played_card = 0
    /\ utterances = <<>>
    /\ turn_count = 0
    /\ status = "NONE"
    /\ votes = <<>>
    /\ finished_agents = <<>>
    /\ dealt = "no"
    /\ final_state = Snapshot
    /\ trace = <<>>
    /\ inputs = <<>>

ProviderNext ==
    \/ ProviderCall
    \/ SetLlm
    \/ ClearCache

ProviderSpec == ProviderInit /\ [][ProviderNext]_vars

\* ------------------------------------------------------------ the claims
Last(s) == s[Len(s)]

PlayVoters == {a \in DOMAIN votes : votes[a] = "PLAY"}

\* Some card of the sequence is lower than the card before it.
Descent(cards) == \E i \in 2..Len(cards) : cards[i] < cards[i - 1]

IsPermutation(s, t) ==
    /\ Len(s) = Len(t)
    /\ Range(s) = Range(t)
    /\ \A i, j \in DOMAIN s : i # j => s[i] # s[j]

Terminal == {"SUCCESS", "FAILED"}

Count(s, x) == Cardinality({i \in DOMAIN s : s[i] = x})

\* C1: whenever execute_play runs there is a PLAY voter, the card appended to
\* played_cards is the lowest hand card among the PLAY voters, the agent
\* appended to finished_agents is a PLAY voter holding that card, and nothing
\* else is appended in that step.
C1_PlaysMinimum ==
    [][pc = "execute_play" =>
         /\ PlayVoters # {}
         /\ LET low == Min({hands[a] : a \in PlayVoters})
            IN  /\ played_cards' = Append(played_cards, low)
                /\ \E p \in PlayVoters :
                     /\ hands[p] = low
                     /\ finished_agents' = Append(finished_agents, p)]_vars

\* A play was just resolved among two PLAY voters where the later agent of the
\* list held the lower card, and that agent played.
C1_Witness ==
    /\ trace # <<>> /\ Last(trace) = "execute_play"
    /\ \E a, b \in PlayVoters :
         /\ b < a
         /\ hands[a] < hands[b]
         /\ Last(finished_agents) = a
         /\ Last(played_cards) = hands[a]

\* C2: status is SUCCESS exactly when finished_agents is a permutation of
\* agents and no played card is lower than the card before it; when all agents
\* have finished and a card did descend, status is FAILED.
C2_SuccessIff ==
    /\ status = "SUCCESS" <=>
         (IsPermutation(finished_agents, agents) /\ ~Descent(played_cards))
    /\ (IsPermutation(finished_agents, agents) /\ Descent(played_cards))
         => status = "FAILED"

\* A game of at least two agents that ended in SUCCESS.
C2_Witness ==
    /\ status = "SUCCESS"
    /\ Len(agents) >= 2
    /\ pc = "done"

\* C3: status is FAILED exactly when a card descended or turn_count has
\* reached max_turns; and status becomes FAILED only in an execute_play that
\* plays a card below last_played_card or in a wait_round that raises
\* turn_count to max_turns or more.
C3_FailedInv ==
    status = "FAILED" <=> (Descent(played_cards) \/ turn_count >= max_turns)

C3_FailedStep ==
    (status # "FAILED" /\ status' = "FAILED") =>
        \/ /\ pc = "execute_play"
           /\ Last(played_cards') < last_played_card
        \/ /\ pc = "wait_round"
           /\ status = "ACTIVE"
           /\ turn_count' = turn_count + 1
           /\ turn_count' >= max_turns

C3_FailedIff == []C3_FailedInv /\ [][C3_FailedStep]_vars

\* A game that failed by stagnation in its second discussion round, after a
\* card had been played without descent.
C3_Witness ==
    /\ status = "FAILED"
    /\ ~Descent(played_cards)
    /\ played_cards # <<>>
    /\ turn_count = 2
    /\ max_turns = 2

\* C4: while status is ACTIVE no played card is lower than its predecessor; a
\* card lower than its predecessor is the last card of played_cards and the
\* status is FAILED from then on; once a descent is on the table the table
\* never changes.
C4_NoDescentInv ==
    /\ status = "ACTIVE" => ~Descent(played_cards)
    /\ \A i \in 2..Len(played_cards) :
         played_cards[i] < played_cards[i - 1] =>
             (i = Len(played_cards) /\ status = "FAILED")

C4_NoDescentStep ==
    Descent(played_cards) =>
        (played_cards' = played_cards /\ status' = "FAILED")

C4_AscendingWhileActive == []C4_NoDescentInv /\ [][C4_NoDescentStep]_vars

\* run() has returned a game that failed on a descending card while an agent
\* still held its card.
C4_Witness ==
    /\ Descent(played_cards)
    /\ status = "FAILED"
    /\ Len(finished_agents) < Len(agents)
    /\ pc = "done"

CanSetUp == DOMAIN hands = AgentSet \/ Len(agents) <= DeckSize

C6_AllWait ==
    (played_cards = <<>> /\ pc \notin {"setup", "raised", "execute_play"}) =>
        /\ turn_count = Count(trace, "wait_round")
        /\ turn_count <= max_turns
        /\ pc \in {"END", "done"} <=> turn_count = max_turns
        /\ pc \in {"END", "done"} =>
             /\ status = "FAILED"
             /\ Last(history) = StagnationLine
             /\ Last(trace) = "wait_round"
        /\ pc \notin {"END", "done"} =>
             /\ status = "ACTIVE"
             /\ \A i \in DOMAIN history : history[i] # StagnationLine

\* Two agents waited through two discussion rounds and the game ended.
C6_Witness ==
    /\ played_cards = <<>>
    /\ pc = "done"
    /\ max_turns = 2
    /\ turn_count = 2
    /\ Len(agents) >= 2
    /\ status = "FAILED"

\* C7: execute_play is entered only with a PLAY voter among the recorded
\* votes, wait_round only when every unfinished agent has a recorded vote of
\* WAIT, and voting is followed by one of the two.
C7_RoutingInv ==
    /\ pc = "execute_play" => PlayVoters # {}
    /\ pc = "wait_round" =>
         /\ DOMAIN votes = Range(Unfinished)
         /\ \A a \in DOMAIN votes : votes[a] = "WAIT"

C7_RoutingStep ==
    pc = "voting" =>
        /\ pc' \in {"execute_play", "wait_round"}
        /\ pc' = "execute_play" <=> (\E a \in DOMAIN votes' : votes'[a] = "PLAY")

C7_Routing == []C7_RoutingInv /\ [][C7_RoutingStep]_vars

\* Voting has routed to execute_play on a single PLAY vote among several.
C7_Witness ==
    /\ pc = "execute_play"
    /\ Cardinality(PlayVoters) = 1
    /\ Cardinality(DOMAIN votes) >= 2

\* C8: the nodes run in the order setup, speaking, then rounds of voting
\* followed by one of execute_play and wait_round; the node to run next is
\* the one this order gives, and a run that has ended has run at least one
\* whole round.
C8_PhaseOrder ==
    /\ \A i \in DOMAIN trace :
         /\ i = 1 => trace[i] = "setup"
         /\ i = 2 => trace[i] = "speaking"
         /\ (i >= 3 /\ i % 2 = 1) => trace[i] = "voting"
         /\ (i >= 4 /\ i % 2 = 0) => trace[i] \in {"execute_play", "wait_round"}
    /\ pc \in {"setup", "raised"} <=> trace = <<>>
    /\ pc = "speaking" <=> Len(trace) = 1
    /\ pc = "voting" => (Len(trace) >= 2 /\ Len(trace) % 2 = 0)
    /\ pc \in {"execute_play", "wait_round"} => (Len(trace) >= 3 /\ Len(trace) % 2 = 1)
    /\ pc \in {"END", "done"} => (Len(trace) >= 4 /\ Len(trace) % 2 = 0)

\* A run of three rounds, with both kinds of round, has ended.
C8_Witness ==
    /\ pc = "done"
    /\ Len(trace) >= 8
    /\ Count(trace, "wait_round") >= 1
    /\ Count(trace, "execute_play") >= 1

\* C9: once status is SUCCESS or FAILED no node runs: the game state never
\* changes again and the only step left is run() returning; what run()
\* returns is that state.
C9_TerminalInv ==
    /\ status \in Terminal => (pc \in {"END", "done"} /\ final_state = Snapshot)
    /\ pc \in {"END", "done"} => status \in Terminal
    /\ pc = "done" => final_state = Snapshot

C9_TerminalStep ==
    status \in Terminal =>
        /\ UNCHANGED <<game, final_state, trace>>
        /\ pc = "END"
        /\ pc' = "done"

C9_TerminalOnce == []C9_TerminalInv /\ [][C9_TerminalStep]_vars

\* run() has returned a SUCCESS reached by a play after a discussion round.
C9_Witness ==
    /\ pc = "done"
    /\ status = "SUCCESS"
    /\ Last(trace) = "execute_play"
    /\ turn_count >= 1

\* C10: when Setup deals (no complete pre-supplied mapping) and the deck has
\* a card for every agent, every agent gets one card, the cards are pairwise
\* distinct cards of the deck, and the deck left holds exactly the
\* DeckSize - N cards that were not dealt, each once.
C10_DealStep ==
    (pc = "setup" /\ DOMAIN hands # AgentSet /\ Len(agents) <= DeckSize) =>
        /\ pc' = "speaking"
        /\ DOMAIN hands' = AgentSet
        /\ \A a \in AgentSet : hands'[a] \in Cards
        /\ \A a, b \in AgentSet : a # b => hands'[a] # hands'[b]
        /\ Len(deck') = DeckSize - Len(agents)
        /\ Range(deck') = Cards \ Range(hands')

C10_Deal == [][C10_DealStep]_vars

\* Setup has dealt cards to at least two agents.
C10_Witness ==
    /\ dealt = "dealt"
    /\ pc = "speaking"
    /\ Len(agents) >= 2
    /\ \E a, b \in AgentSet : hands[a] < hands[b]

\* C11: when there are more agents than the deck has cards and Setup deals,
\* Setup raises the empty-deck error: no node has produced an output, the game
\* state is the caller's, and Speaking and the later phases never run; in
\* every state a node has produced, every agent holds a card.
C11_EmptyDeckStep ==
    (pc = "setup" /\ DOMAIN hands # AgentSet /\ Len(agents) > DeckSize) =>
        /\ pc' = "raised"
        /\ UNCHANGED <<game, final_state, trace>>

C11_EmptyDeckInv ==
    /\ pc = "raised" => (trace = <<>> /\ status = "NONE" /\ final_state = Snapshot)
    /\ pc \notin {"setup", "raised"} => AgentSet \subseteq DOMAIN hands
    /\ trace # <<>> => AgentSet \subseteq DOMAIN final_state.hands

C11_EmptyDeck == []C11_EmptyDeckInv /\ [][C11_EmptyDeckStep]_vars

\* Setup has raised for one agent more than the deck has cards, the caller
\* having supplied hands for all agents but the last.
C11_Witness ==
    /\ pc = "raised"
    /\ Len(agents) = DeckSize + 1
    /\ DOMAIN hands = 1..DeckSize

\* The votes are those of the unfinished agents, each PLAY or WAIT.
VotesWellFormed ==
    /\ DOMAIN votes = Range(Unfinished)
    /\ \A a \in DOMAIN votes : votes[a] \in {"PLAY", "WAIT"}

\* C12 (as claimed): after Voting, votes has one entry per unfinished agent,
\* each PLAY or WAIT, and a provider action that is not PLAY or WAIT, or a
\* human input that is not PLAY, is recorded as WAIT.
C12_ExactSpelling ==
    (trace # <<>> /\ Last(trace) = "voting") =>
        /\ VotesWellFormed
        /\ \A a \in DOMAIN votes :
             /\ (a # human /\ inputs[a] \notin {"PLAY", "WAIT"}) => votes[a] = "WAIT"
             /\ (a = human /\ inputs[a] # "PLAY") => votes[a] = "WAIT"

\* C12 (amended): after Voting, votes has one entry per unfinished agent and
\* none for a finished one, each PLAY or WAIT: a provider's action is
\* recorded as what it reads once trimmed and upper-cased if that is PLAY or WAIT
\* and as WAIT otherwise; the human's input is recorded as PLAY if it reads
\* PLAY once trimmed and upper-cased and as WAIT otherwise.
C12_VotesNormalised ==
    (trace # <<>> /\ Last(trace) = "voting") =>
        /\ VotesWellFormed
        /\ \A a \in DOMAIN votes :
             LET read == StripUpper(inputs[a])
             IN  /\ a # human =>
                       votes[a] = (IF read \in {"PLAY", "WAIT"} THEN read ELSE "WAIT")
                 /\ a = human =>
                       votes[a] = (IF read = "PLAY" THEN "PLAY" ELSE "WAIT")

\* A voting phase in which the human typed "play" and the Estimator's action
\* for the other agent was "pass".
C12_Witness ==
    /\ trace # <<>> /\ Last(trace) = "voting"
    /\ \E a, b \in DOMAIN votes :
         /\ a = human /\ inputs[a] = "play" /\ votes[a] = "PLAY"
         /\ b # human /\ inputs[b] = "pass" /\ votes[b] = "WAIT"

\* C13 (as claimed): no provider call raises: whatever fails while the
\* instance is resolved, invoked or its response decoded, the function
\* returns a value.
C13_NeverPropagates == ~call.raised

\* C14 (as claimed): instances resolved without an override are cached per
\* (backend, model, role): no constructed instance is the instance of two
\* roles, and each role's constructed instance was built for that role, with
\* that role's temperature.
C14_PerRoleInstance ==
    \A r \in Roles :
        role_llm[r].kind = "built" =>
            /\ role_llm[r].temperature = Temperature(r)
            /\ \A o \in Roles \ {r} : role_llm[o] # role_llm[r]

\* C15 (as claimed): a provider call made after clear_llm_cache() without an
\* override never runs on an instance constructed before the clear.
C15_FreshAfterClear ==
    (call # NoCall /\ call.override = None /\ call.llm.kind = "built") =>
        call.llm.id > stale

\* C16 (as claimed): unless mock mode is forced, a provider call that is
\* passed an override runs on that override, whatever was resolved or cached
\* before; a call that is passed none never runs on an override passed to an
\* earlier call.
C16_OverridePerCall ==
    (call # NoCall /\ ~env.force_mock) =>
        /\ call.override # None => call.llm = call.override
        /\ call.override = None => call.llm.kind # "override"

\* The question lines among the lines a step appends to the history.
QuestionLines(before, after) ==
    SelectSeq(SubSeq(after, Len(before) + 1, Len(after)),
              LAMBDA l : l.kind = "question")

\* C17: in a discussion round where some agent proposes a question, the
\* questions recorded are the distinct non-empty texts proposed, each once,
\* each attributed to the first agent of the list that proposed that text,
\* in the order of those first proposers.
C17_DedupStep ==
    pc = "wait_round" =>
        LET q == inputs'.q
            texts == {q[a] : a \in DOMAIN q} \ {""}
            qs == QuestionLines(history, history')
        IN  texts # {} =>
                /\ Len(qs) = Cardinality(texts)
                /\ \A i \in DOMAIN qs :
                     /\ qs[i].text \in texts
                     /\ qs[i].owner = Min({a \in DOMAIN q : q[a] = qs[i].text})
                /\ \A i, j \in DOMAIN qs : i < j => qs[i].owner < qs[j].owner

C17_Dedup == [][C17_DedupStep]_vars

\* A first discussion round in which two agents proposed the same text: the
\* history holds it once, attributed to the first of them.
C17_Witness ==
    /\ trace # <<>> /\ Last(trace) = "wait_round"
    /\ turn_count = 1
    /\ \E a, b \in DOMAIN inputs.q :
         /\ a < b
         /\ inputs.q[a] = "q2" /\ inputs.q[b] = "q2"
         /\ Cardinality({i \in DOMAIN history :
                           history[i].kind = "question" /\ history[i].text = "q2"}) = 1
         /\ \E i \in DOMAIN history :
              history[i].kind = "question" /\ history[i].text = "q2" /\ history[i].owner = a

\* C18 (as claimed): in every state after Setup, dealt or pre-supplied, every
\* agent has exactly one hand and the hand values are pairwise-distinct cards
\* of the deck's range.
C18_HandsDistinct ==
    pc \notin {"setup", "raised"} =>
        /\ DOMAIN hands = AgentSet
        /\ \A a \in AgentSet : hands[a] \in Cards
        /\ \A a, b \in AgentSet : a # b => hands[a] # hands[b]

\* C19: when the supplied hands mapping has exactly the agents as its keys,
\* Setup keeps it as it is and the deck it leaves holds exactly the cards in
\* no hand, each once; otherwise, unless the deck runs out, every agent is
\* dealt a card of a fresh deck and the supplied mapping is gone.
C19_SetupStep ==
    pc = "setup" =>
        IF DOMAIN hands = AgentSet
        THEN /\ pc' = "speaking"
             /\ hands' = hands
             /\ dealt' = "kept"
             /\ Range(deck') = Cards \ Range(hands)
             /\ Len(deck') = Cardinality(Range(deck'))
        ELSE pc' # "raised" =>
                 /\ pc' = "speaking"
                 /\ dealt' = "dealt"
                 /\ DOMAIN hands' = AgentSet
                 /\ \A a, b \in AgentSet : a # b => hands'[a] # hands'[b]
                 /\ Range(deck') = Cards \ Range(hands')
                 /\ Len(deck') = DeckSize - Len(agents)

C19_KeepOrDeal == [][C19_SetupStep]_vars

\* Setup has kept a supplied mapping in which two agents hold the same card,
\* and left a deck without that card.
C19_Witness ==
    /\ dealt = "kept"
    /\ pc = "speaking"
    /\ \E a, b \in AgentSet : a # b /\ hands[a] = hands[b]
    /\ deck # <<>>
    /\ Range(deck) \cap Range(hands) = {}

\* C20: finished_agents holds agents of the game, none twice; played_cards
\* is as long, and its i-th card is the hand card of the i-th finished agent;
\* finished_agents only grows, by one agent who had not finished, in
\* execute_play; and a voting phase records no vote of a finished agent.
C20_FinishedInv ==
    /\ Range(finished_agents) \subseteq AgentSet
    /\ \A i, j \in DOMAIN finished_agents : i # j => finished_agents[i] # finished_agents[j]
    /\ Len(played_cards) = Len(finished_agents)
    /\ \A i \in DOMAIN finished_agents : played_cards[i] = hands[finished_agents[i]]

C20_FinishedStep ==
    /\ pc = "voting" => DOMAIN votes' \cap Range(finished_agents) = {}
    /\ pc = "execute_play" =>
         \E p \in AgentSet \ Range(finished_agents) :
             finished_agents' = Append(finished_agents, p)
    /\ pc \notin {"setup", "execute_play"} => finished_agents' = finished_agents

C20_Finished == []C20_FinishedInv /\ [][C20_FinishedStep]_vars

\* A voting phase after a play, among three agents: the two who have not
\* played have voted, the one who has played has not.
C20_Witness ==
    /\ trace # <<>> /\ Last(trace) = "voting"
    /\ Len(agents) = 3
    /\ Len(finished_agents) = 1
    /\ Cardinality(DOMAIN votes) = 2
    /\ finished_agents[1] \notin DOMAIN votes

Max(S) == CHOOSE x \in S : \A y \in S : y <= x

\* C21 (as claimed): last_played_card is the highest card in played_cards, or
\* 0 when no card has been played.
C21_HighestPlayed ==
    last_played_card = (IF played_cards = <<>> THEN 0 ELSE Max(Range(played_cards)))

\* C21 (amended): last_played_card is the card played last, or 0 when no card
\* has been played; it is the highest card in played_cards exactly as long
\* as no card has descended.
C21_LastPlayed ==
    /\ last_played_card = (IF played_cards = <<>> THEN 0 ELSE Last(played_cards))
    /\ played_cards # <<>> =>
         (last_played_card = Max(Range(played_cards)) <=> ~Descent(played_cards))

\* A card was played below the card before it: last_played_card is that
\* card, not the highest.
C21_Witness ==
    /\ Len(played_cards) >= 2
    /\ last_played_card = Last(played_cards)
    /\ last_played_card < Max(Range(played_cards))

\* C22: turn_count is the number of discussion rounds run so far: wait_round
\* raises it by exactly one, and speaking, voting and execute_play leave it
\* as it is, so a play between two rounds does not reset it.
C22_TurnCountInv == turn_count = Count(trace, "wait_round")

C22_TurnCountStep ==
    /\ pc = "wait_round" => turn_count' = turn_count + 1
    /\ pc \in {"speaking", "voting", "execute_play"} => turn_count' = turn_count

C22_TurnCount == []C22_TurnCountInv /\ [][C22_TurnCountStep]_vars

\* Two discussion rounds with a play between them: turn_count is 2.
C22_Witness ==
    /\ turn_count = 2
    /\ \E i, j, k \in DOMAIN trace :
         /\ i < j /\ j < k
         /\ trace[i] = "wait_round"
         /\ trace[j] = "execute_play"
         /\ trace[k] = "wait_round"

\* The lines a step appends to the history.
Appended(before, after) == SubSeq(after, Len(before) + 1, Len(after))

KindCount(lines, kind) == Cardinality({i \in DOMAIN lines : lines[i].kind = kind})

\* C23: the turn limit is applied at the end of a discussion round only: the
\* round that reaches max_turns records the all-wait line, every question it
\* would record otherwise and every answer to it, and the stagnation line
\* last; voting never changes the status, and execute_play sets FAILED only
\* for a card below last_played_card.
C23_LimitStep ==
    /\ (pc = "wait_round" /\ status' = "FAILED") =>
         LET added == Appended(history, history')
             q == inputs'.q
             ha == inputs'.ha
             texts == {q[a] : a \in DOMAIN q} \ {""}
             nq == IF texts = {} THEN 1 ELSE Cardinality(texts)
             answering == Cardinality(Range(Unfinished) \ {human})
             typed == Cardinality({o \in DOMAIN ha : ha[o] # ""})
         IN  /\ turn_count' >= max_turns
             /\ added[1] = AllWaitLine
             /\ Last(added) = StagnationLine
             /\ KindCount(added, "question") = nq
             /\ KindCount(added, "answer") = nq * answering + typed
             /\ Len(added) = 2 + nq + nq * answering + typed
    /\ pc = "voting" => status' = status
    /\ (pc = "execute_play" /\ status' = "FAILED") =>
         Last(played_cards') < last_played_card

C23_LimitAtRoundEnd == [][C23_LimitStep]_vars

\* A game of two agents ended by the turn limit in its first round: both
\* questions and the four answers are in the history, the stagnation line last.
C23_Witness ==
    /\ status = "FAILED"
    /\ max_turns = 1
    /\ turn_count = 1
    /\ Last(history) = StagnationLine
    /\ KindCount(history, "question") = 2
    /\ KindCount(history, "answer") = 4

\* C24: every discussion round records at least one question; when no
\* active agent proposes a non-empty question it records exactly one, under
\* the moderator owner: the general-question provider's question, or the
\* fixed default question when that one is empty too.
C24_FallbackStep ==
    pc = "wait_round" =>
        LET qs == QuestionLines(history, history')
            q == inputs'.q
            mq == inputs'.mq
        IN  /\ Len(qs) >= 1
            /\ (\A a \in DOMAIN q : q[a] = "") =>
                 /\ Len(qs) = 1
                 /\ qs[1].owner = Moderator
                 /\ qs[1].text = (IF mq # "" THEN mq ELSE DefaultQuestion)

C24_Fallback == [][C24_FallbackStep]_vars

\* A discussion round in which the human, the only agent left, proposed
\* nothing: the general-question provider's question is in the history.
C24_Witness ==
    /\ trace # <<>> /\ Last(trace) = "wait_round"
    /\ DOMAIN inputs.q = {human}
    /\ inputs.q[human] = ""
    /\ inputs.mq = "qm"
    /\ \E i \in DOMAIN history :
         /\ history[i].kind = "question"
         /\ history[i].owner = Moderator
         /\ history[i].text = "qm"

\* C25: Speaking leaves utterances with exactly one entry per agent and
\* appends to the history exactly one line per agent, in agents-list order,
\* each with that agent's utterance; the utterance is the word given, and the
\* fixed placeholder where the human entered nothing.
C25_SpeakingStep ==
    pc = "speaking" =>
        LET added == Appended(history, history')
        IN  /\ DOMAIN utterances' = AgentSet
            /\ Len(added) = Len(agents)
            /\ \A i \in DOMAIN agents :
                 added[i] = Line("say", agents[i], 0, 0, utterances'[agents[i]])
            /\ \A a \in AgentSet :
                 utterances'[a] =
                     (IF a = human /\ inputs'[a] \in {"", " "} THEN NoWord ELSE inputs'[a])

C25_Speaking == [][C25_SpeakingStep]_vars

\* Speaking is over in a game of two agents; the human, second in the list,
\* entered nothing and the placeholder is the last line of the history.
C25_Witness ==
    /\ pc = "voting"
    /\ Len(trace) = 2
    /\ human = 2
    /\ inputs[2] = ""
    /\ utterances[2] = NoWord
    /\ utterances[1] = "w"
    /\ Last(history) = Line("say", 2, 0, 0, NoWord)

\* C26: after Setup no later phase changes theme, agents, hands or deck, and
\* after Speaking no later phase changes utterances: Speaking runs once, right
\* after Setup, and Voting, ExecutePlay and WaitRound leave its clues as they are.
C26_FrozenStep ==
    /\ pc # "setup" => UNCHANGED <<theme, agents, hands, deck>>
    /\ pc = "speaking" => trace = <<"setup">>
    /\ pc \in {"voting", "execute_play", "wait_round"} => UNCHANGED utterances

C26_Frozen == [][C26_FrozenStep]_vars

\* A game of two agents after a discussion round and a play: the agent that
\* played is finished and its clue is still among the utterances, and the
\* theme is the one Setup selected.
C26_Witness ==
    /\ Len(agents) = 2
    /\ "wait_round" \in Range(trace)
    /\ Last(trace) = "execute_play"
    /\ Len(finished_agents) = 1
    /\ DOMAIN utterances = AgentSet
    /\ theme = self_theme
    /\ pc = "voting"

\* C27: every WaitRound leaves votes empty, whether it ends the game or not;
\* ExecutePlay and WaitRound run only right after a Voting, on the votes that
\* Voting has just recorded: one for each unfinished agent, made from the
\* action given in that very phase, and none kept from an earlier round.
C27_VotesStep ==
    /\ pc = "wait_round" => votes' = <<>>
    /\ pc = "voting" =>
          /\ DOMAIN votes' = Range(Unfinished)
          /\ \A a \in DOMAIN votes' : votes'[a] = RecordedVote(a, inputs'[a])
          /\ pc' = (IF \E a \in DOMAIN votes' : votes'[a] = "PLAY"
                    THEN "execute_play" ELSE "wait_round")
    /\ pc \in {"execute_play", "wait_round"} =>
          /\ Last(trace) = "voting"
          /\ DOMAIN votes = Range(Unfinished)
          /\ \A a \in DOMAIN votes : votes[a] = RecordedVote(a, inputs[a])

C27_Votes == [][C27_VotesStep]_vars

\* A game of two agents: one played, then two discussion rounds followed; the
\* second one ended the game by stagnation, and the votes are empty.
C27_Witness ==
    /\ Len(agents) = 2
    /\ "execute_play" \in Range(trace)
    /\ Last(trace) = "wait_round"
    /\ turn_count = 2
    /\ status = "FAILED"
    /\ votes = <<>>

\* C28: from the state Setup produced onward the history only grows: every
\* later phase leaves the previous history as a prefix of the new one; Voting
\* appends nothing, ExecutePlay exactly one line, WaitRound at least two.
C28_HistoryStep ==
    pc \in {"speaking", "voting", "execute_play", "wait_round"} =>
        /\ Len(history') >= Len(history)
        /\ SubSeq(history', 1, Len(history)) = history
        /\ pc = "voting" => history' = history
        /\ pc = "execute_play" => Len(history') = Len(history) + 1
        /\ pc = "wait_round" => Len(history') >= Len(history) + 2

C28_HistoryGrows == [][C28_HistoryStep]_vars

\* A game of two agents that goes on after a play and a discussion round of
\* the agent left: the start line, two clues, the play, and the round's three
\* lines.
C28_Witness ==
    /\ Len(agents) = 2
    /\ trace = <<"setup", "speaking", "voting", "execute_play", "voting", "wait_round">>
    /\ status = "ACTIVE"
    /\ history[1] = StartLine(theme)
    /\ Len(history) = 7

\* What Setup resets and what it takes from the initial state, but for the
\* theme override.
C29_Reset ==
    /\ status' = "ACTIVE"
    /\ turn_count' = 0
    /\ last_played_card' = 0
    /\ played_cards' = <<>>
    /\ finished_agents' = <<>>
    /\ utterances' = <<>>
    /\ votes' = <<>>
    /\ agents' = (IF agents # <<>> THEN agents ELSE agent_ids)
    /\ IF DOMAIN hands = Range(agents')
       THEN hands' = hands
       ELSE /\ DOMAIN hands' = Range(agents')
            /\ \A a, b \in DOMAIN hands' : a # b => hands'[a] # hands'[b]
    /\ Range(deck') = Cards \ Range(hands')
    /\ Len(deck') = Cardinality(Range(deck'))
    /\ history' = (IF history # <<>> THEN history ELSE <<StartLine(theme')>>)
    /\ theme' \in (IF theme_override' # "" THEN {theme_override'}
                   ELSE IF self_theme # "" THEN {self_theme} ELSE THEMES_JA)

\* C29 as stated: Setup starts a fresh game whatever the initial state holds,
\* and carries over the agents, a complete hands mapping, a non-empty history
\* and theme_override as they were supplied.
C29_CarriedAsSuppliedStep ==
    (pc = "setup" /\ pc' # "raised") => (C29_Reset /\ theme_override' = theme_override)

C29_CarriedAsSupplied == [][C29_CarriedAsSuppliedStep]_vars

\* C29, amended: Setup starts a fresh game whatever the initial state holds:
\* status ACTIVE, turn_count 0, last_played_card 0, empty played_cards,
\* finished_agents, utterances and votes, a deck of the cards in no hand, and
\* a theme selected anew; it carries over the supplied agents (the engine's
\* own where none are supplied), a complete hands mapping, a non-empty
\* history, and theme_override with surrounding blanks removed.
C29_FreshGameStep ==
    (pc = "setup" /\ pc' # "raised") =>
        (C29_Reset /\ theme_override' = (IF theme_override = " " THEN "" ELSE theme_override))

C29_FreshGame == [][C29_FreshGameStep]_vars

\* Setup has run on a supplied state: the agents are in another order than
\* the engine's, the complete hands and the history are the supplied ones,
\* and the theme is one of the pool, the override having been empty or blank.
C29_Witness ==
    /\ trace = <<"setup">>
    /\ Len(agents) = 2
    /\ agents # agent_ids
    /\ dealt = "kept"
    /\ history = <<SuppliedLine>>
    /\ theme \in THEMES_JA
    /\ theme_override = ""
    /\ status = "ACTIVE"
    /\ turn_count = 0
    /\ played_cards = <<>>

\* The hands are pairwise distinct.
C30_DistinctHands == \A a, b \in DOMAIN hands : a # b => hands[a] # hands[b]

C30_Below == {hands[a] : a \in AgentSet} \cap 1..(MockThreshold - 1)

\* C30: with the Estimator's mock logic (PLAY exactly for a card below the
\* threshold) and pairwise distinct hands, only cards below the threshold are
\* played, in strictly ascending order; a game that is over has played
\* exactly the cards below the threshold and is SUCCESS exactly when every
\* hand is below the threshold, and otherwise FAILED by stagnation with
\* turn_count = max_turns.
C30_MockInv ==
    (pc # "setup" /\ pc # "raised" /\ C30_DistinctHands) =>
        /\ Range(played_cards) \subseteq C30_Below
        /\ ~Descent(played_cards)
        /\ \A i, j \in DOMAIN played_cards : i # j => played_cards[i] # played_cards[j]
        /\ pc \in {"END", "done"} =>
              /\ Range(played_cards) = C30_Below
              /\ status \in Terminal
              /\ status = "SUCCESS" <=> \A a \in AgentSet : hands[a] < MockThreshold
              /\ status = "FAILED" =>
                    /\ turn_count = max_turns
                    /\ Last(history) = StagnationLine
                    /\ Last(trace) = "wait_round"

C31_PhaseBounds ==
    /\ Count(trace, "execute_play") <= Len(agents)
    /\ Count(trace, "wait_round") <= max_turns
    /\ Count(trace, "voting") <= Len(agents) + max_turns - 1
    /\ Len(trace) <= 2 * (Len(agents) + max_turns)

\* C32 (as claimed): whenever Voting is entered some agent is unfinished, so the votes
\* the router and ExecutePlay read are never empty, and every WaitRound has
\* an active agent to propose and to answer.
C32_SomeoneVotes ==
    /\ pc \in {"voting", "wait_round"} => Unfinished # <<>>
    /\ pc \in {"execute_play", "wait_round"} => votes # <<>>

=============================================================================
